---- MODULE Spec2Model ----
(***************************************************************************)
(* Model of the interactive pieces of the iff-web site: the navigation     *)
(* context (reducer and persistence), the performance hooks (useDebounce,  *)
(* useThrottle, useLazyDropdown), the cookie consent banner, the           *)
(* development modal, the navigation item validation utilities, the        *)
(* cookie record parser, the sitemap generator and the title content       *)
(* fallbacks.                                                              *)
(*                                                                         *)
(* Every component has its own specification (SpecNav, SpecDebounce, ...)  *)
(* over the shared variables; a specification leaves the variables of the  *)
(* other components at their initial values.                               *)
(***************************************************************************)
EXTENDS Integers, Sequences, FiniteSets, TLC

VARIABLES
  now,              \* Date.now() / the timer clock
  \* ---- NavigationProvider (Navigation/context.tsx)
  persistState,     \* the persistState prop
  navPhase,         \* "unmounted" | "rendered" (first render done, effects pending) | "mounted"
  navState,         \* the reducer state
  navStorage,       \* localStorage['navigation-state']
  navLastAction,    \* the action argument of the reducer's last run since mount
  \* ---- useDebounce
  dbDelay,          \* the delay argument
  dbMounted,        \* whether the component using the hook is mounted
  dbTimeoutRef,     \* timeoutRef.current: id of the last timer set (0: undefined)
  dbTimers,         \* pending timers of the event loop: records [id, due, args]
  dbCalls,          \* the calls made to the debounced function: records [time, args]
  dbExecs,          \* the executions of the wrapped callback: records [time, args, call]
  \* ---- useThrottle
  thDelay,          \* the delay argument
  thLastCallRef,    \* lastCallRef.current
  thCalls,          \* the calls made to the throttled function: records [time, args]
  thExecs,          \* the executions of the wrapped callback: records [time, args, call]
  \* ---- useLazyDropdown
  lzDelay,          \* the delay argument
  lzMounted,        \* "no" (not mounted yet) | "yes" | "gone" (unmounted)
  lzIsOpen,         \* the isOpen argument of the last render
  lzShouldRender,   \* the shouldRender state
  lzTimeoutRef,     \* timeoutRef.current: id of the last timer set (0: undefined)
  lzTimers,         \* pending timers: records [id, due]
  lzOpenSince,      \* the time of the render at which isOpen last turned true
  \* ---- specifications whose clock counts milliseconds
  ticks,            \* how many times the clock has advanced
  \* ---- ModalDevelopment
  mdMounted,        \* "no" | "yes" | "gone"
  mdIsOpen,         \* the isOpen prop of the last render
  mdIsVisible,      \* the isVisible state: the modal is in the DOM, modalRef is set
  mdHideTimer,      \* the pending timer of the visibility effect: [due] or NoValue
  mdMouseDown,      \* whether the effect's mousedown listener is on the document
  mdKeyDown,        \* whether the effect's keydown listener is on the document
  mdLastEvent,      \* the DOM event last delivered ("none" after any other step)
  mdOnCloseCalls,   \* how many times onClose has been invoked
  \* ---- Cookies
  ckHideForHours,   \* the hideForHours prop: [set |-> FALSE] or [set |-> TRUE, value |-> n]
  ckAutoShowDelay,  \* the autoShowDelay prop, likewise
  localStorage,     \* localStorage, for the keys of the cookie banner
  ckLastAccess,     \* the last localStorage call of the banner: [op, key], or NoValue
  ckMounted,        \* whether the Cookies component is mounted
  ckState,          \* useCookiesState's state: [isVisible, isAnimating, shouldRender]
  ckTimers,         \* pending timers of the mounted banner: records [kind, due]
  ckMountedAt,      \* when the current mount's initialization effect ran
  ckAcceptedHere,   \* whether the banner was accepted during the current mount
  \* ---- getSafeNavigationItem
  gsItem,           \* the item argument
  gsFallback,       \* the fallback argument
  gsResult,         \* the value returned, NoValue before the call
  \* ---- parseCookieAcceptanceData
  pcData,           \* the data argument
  pcResult,         \* how the call ended: [kind, value] or [kind, error]; NoValue before it
  \* ---- generateSitemap
  smUrls,           \* the urls argument
  smXml,            \* the string returned, NoValue before the call
  \* ---- navigationReducer, called on its own
  rdState,          \* the state argument
  rdAction,         \* the action argument
  rdResult,         \* the state returned, NoValue before the call
  \* ---- getSafeTitleContent
  ttContent,        \* the content argument
  ttResult          \* the value returned, NoValue before the call

navVars == <<persistState, navPhase, navState, navStorage, navLastAction>>
dbVars == <<dbDelay, dbMounted, dbTimeoutRef, dbTimers, dbCalls, dbExecs>>
thVars == <<thDelay, thLastCallRef, thCalls, thExecs>>
lzVars == <<lzDelay, lzMounted, lzIsOpen, lzShouldRender, lzTimeoutRef, lzTimers, lzOpenSince>>
mdVars == <<mdMounted, mdIsOpen, mdIsVisible, mdHideTimer, mdMouseDown, mdKeyDown,
           mdLastEvent, mdOnCloseCalls>>
ckVars == <<ckHideForHours, ckAutoShowDelay, localStorage, ckLastAccess, ckMounted, ckState,
           ckTimers, ckMountedAt, ckAcceptedHere>>
gsVars == <<gsItem, gsFallback, gsResult>>
utVars == <<pcData, pcResult, smUrls, smXml, rdState, rdAction, rdResult, ttContent, ttResult>>
vars == <<now, ticks, navVars, dbVars, thVars, lzVars, mdVars, ckVars, gsVars, utVars>>

\* The variables a component's specification leaves alone.
notNav == <<ticks, dbVars, thVars, lzVars, mdVars, ckVars, gsVars, utVars>>
notDb == <<ticks, navVars, thVars, lzVars, mdVars, ckVars, gsVars, utVars>>
notTh == <<ticks, navVars, dbVars, lzVars, mdVars, ckVars, gsVars, utVars>>
notLz == <<ticks, navVars, dbVars, thVars, mdVars, ckVars, gsVars, utVars>>
notMd == <<navVars, dbVars, thVars, lzVars, ckVars, gsVars, utVars>>
notCk == <<navVars, dbVars, thVars, lzVars, mdVars, gsVars, utVars>>
notGs == <<now, ticks, navVars, dbVars, thVars, lzVars, mdVars, ckVars, utVars>>
notUt == <<ticks, navVars, dbVars, thVars, lzVars, mdVars, ckVars, gsVars>>

(***************************************************************************)
(* Bounds of the model.                                                    *)
(***************************************************************************)
MaxTime == 4        \* the clock of the hook and navigation specifications stops here
MaxDelay == 2       \* delays are drawn from 0..MaxDelay
MaxCalls == 3       \* calls made to a debounced or throttled function
MaxTicks == 4       \* clock advances of the specifications that count milliseconds
MaxCloses == 2      \* invocations of the modal's onClose
MaxStrLen == 2      \* length of the href strings given to the validation utilities
MaxUrls == 2        \* entries in the list given to generateSitemap

\* Date.now() is far above any delay: the clock starts above MaxDelay.
StartTime == MaxDelay + 1
EndTime == StartTime + MaxTime

\* A value that is absent: localStorage.getItem's null, an unset ref.
NoValue == [absent |-> TRUE]

(***************************************************************************)
(* Initial values of each component's variables.                           *)
(***************************************************************************)
Labels == {"Tools", "About"}
Null == "null"

initialState(t) ==
  [openDropdowns |-> {}, activeItem |-> Null, mobileMenuOpen |-> FALSE, lastInteraction |-> t]

NavIdle ==
  /\ persistState = TRUE
  /\ navPhase = "unmounted"
  /\ navState = initialState(StartTime)
  /\ navStorage = NoValue
  /\ navLastAction = NoValue

DbIdle ==
  /\ dbDelay = 0
  /\ dbMounted = FALSE
  /\ dbTimeoutRef = 0
  /\ dbTimers = {}
  /\ dbCalls = <<>>
  /\ dbExecs = <<>>

ThIdle ==
  /\ thDelay = 0
  /\ thLastCallRef = 0
  /\ thCalls = <<>>
  /\ thExecs = <<>>

LzIdle ==
  /\ lzDelay = 0
  /\ lzMounted = "no"
  /\ lzIsOpen = FALSE
  /\ lzShouldRender = FALSE
  /\ lzTimeoutRef = 0
  /\ lzTimers = {}
  /\ lzOpenSince = 0

MdIdle ==
  /\ mdMounted = "no"
  /\ mdIsOpen = FALSE
  /\ mdIsVisible = FALSE
  /\ mdHideTimer = NoValue
  /\ mdMouseDown = FALSE
  /\ mdKeyDown = FALSE
  /\ mdLastEvent = "none"
  /\ mdOnCloseCalls = 0

\* COOKIES_STORAGE_KEY and DEFAULT_COOKIES_MESSAGE of Cookies/config.ts.
COOKIES_STORAGE_KEY == "if_funds_cookies_accepted"
DEFAULT_COOKIES_MESSAGE ==
  "May fortune favor your every step. Our online fund platform, developed by carefully selected investors from our close network, adheres to official regulations and offers you a transparent, personalized investment partner. Guided by disciplined strategies and our 'DDGO' principle (meaning 'steady progress toward the goal'), we channel your weekly savings into crypto assets to foster consistent growth and secure a prosperous future."

StorageKeys == {COOKIES_STORAGE_KEY, DEFAULT_COOKIES_MESSAGE}

Unset == [set |-> FALSE]
Given(n) == [set |-> TRUE, value |-> n]

CkIdle ==
  /\ ckHideForHours = Unset
  /\ ckAutoShowDelay = Unset
  /\ localStorage = [k \in StorageKeys |-> NoValue]
  /\ ckLastAccess = NoValue
  /\ ckMounted = FALSE
  /\ ckState = [isVisible |-> FALSE, isAnimating |-> FALSE, shouldRender |-> FALSE]
  /\ ckTimers = {}
  /\ ckMountedAt = 0
  /\ ckAcceptedHere = FALSE

GsIdle ==
  /\ gsItem = NoValue
  /\ gsFallback = NoValue
  /\ gsResult = NoValue

PcIdle == pcData = NoValue /\ pcResult = NoValue
SmIdle == smUrls = NoValue /\ smXml = NoValue
RdIdle == rdState = NoValue /\ rdAction = NoValue /\ rdResult = NoValue
TtIdle == ttContent = NoValue /\ ttResult = NoValue
UtIdle == PcIdle /\ SmIdle /\ RdIdle /\ TtIdle

(***************************************************************************)
(* The navigation reducer.                                                 *)
(***************************************************************************)
\* Mutant: the label is added whether or not it was open.
ToggleDropdownSet_AddOnly(open, label) == open \cup {label}

\* TOGGLE_DROPDOWN's new set: the label removed when present, added otherwise.
ToggleDropdownSet(open, label) ==
  IF label \in open THEN open \ {label} ELSE open \cup {label}

\* Mutant: opening or closing the mobile menu also closes the dropdowns, and an
\* unrecognised action refreshes lastInteraction.
navigationReducer_MenuClosesDropdowns(state, action, t) ==
  CASE action.type = "TOGGLE_DROPDOWN" ->
         [state EXCEPT !.openDropdowns = ToggleDropdownSet(state.openDropdowns, action.payload),
                       !.lastInteraction = t]
    [] action.type = "CLOSE_DROPDOWN" ->
         [state EXCEPT !.openDropdowns = state.openDropdowns \ {action.payload},
                       !.lastInteraction = t]
    [] action.type = "CLOSE_ALL_DROPDOWNS" ->
         [state EXCEPT !.openDropdowns = {}, !.lastInteraction = t]
    [] action.type = "SET_ACTIVE_ITEM" ->
         [state EXCEPT !.activeItem = action.payload, !.lastInteraction = t]
    [] action.type = "TOGGLE_MOBILE_MENU" ->
         [state EXCEPT !.mobileMenuOpen = ~state.mobileMenuOpen, !.openDropdowns = {},
                       !.lastInteraction = t]
    [] action.type = "SET_MOBILE_MENU" ->
         [state EXCEPT !.mobileMenuOpen = action.payload, !.openDropdowns = {},
                       !.lastInteraction = t]
    [] OTHER -> [state EXCEPT !.lastInteraction = t]

\* navigationReducer(state, action), with t the value Date.now() returns.
navigationReducer(state, action, t) ==
  CASE action.type = "TOGGLE_DROPDOWN" ->
         [state EXCEPT !.openDropdowns = ToggleDropdownSet(state.openDropdowns, action.payload),
                       !.lastInteraction = t]
    [] action.type = "CLOSE_DROPDOWN" ->
         [state EXCEPT !.openDropdowns = state.openDropdowns \ {action.payload},
                       !.lastInteraction = t]
    [] action.type = "CLOSE_ALL_DROPDOWNS" ->
         [state EXCEPT !.openDropdowns = {}, !.lastInteraction = t]
    [] action.type = "SET_ACTIVE_ITEM" ->
         [state EXCEPT !.activeItem = action.payload, !.lastInteraction = t]
    [] action.type = "TOGGLE_MOBILE_MENU" ->
         [state EXCEPT !.mobileMenuOpen = ~state.mobileMenuOpen, !.lastInteraction = t]
    [] action.type = "SET_MOBILE_MENU" ->
         [state EXCEPT !.mobileMenuOpen = action.payload, !.lastInteraction = t]
    [] action.type = "UPDATE_INTERACTION" ->
         [state EXCEPT !.lastInteraction = t]
    [] OTHER -> state

(***************************************************************************)
(* NavigationProvider: mount, the restore and save effects, the dispatch   *)
(* callbacks of the context.                                               *)
(***************************************************************************)
\* The object the save effect writes (JSON.stringify keeps exactly these fields,
\* JSON.parse gives them back).
stateToSave(state) ==
  [mobileMenuOpen |-> state.mobileMenuOpen, lastInteraction |-> state.lastInteraction]

\* The restore effect's test `if (parsed.openDropdowns)`: the field is truthy only
\* when the saved object has it.
RestoreDispatches(parsed) == "openDropdowns" \in DOMAIN parsed

\* The state after the restore effect's dispatch (if any) has been applied.
RestoredState(state, saved, persist, t) ==
  IF persist /\ saved # NoValue /\ RestoreDispatches(saved)
  THEN navigationReducer(state, [type |-> "SET_MOBILE_MENU", payload |-> saved.mobileMenuOpen], t)
  ELSE state

\* The save effect, run after a render whose state is `state`.
SaveEffect(state, storage, persist) ==
  IF persist THEN stateToSave(state) ELSE storage

\* The page loads: the module is evaluated (initialState takes Date.now()) and
\* NavigationProvider renders for the first time with the initial state.
NavMount ==
  /\ navPhase = "unmounted"
  /\ navPhase' = "rendered"
  /\ navState' = initialState(now)
  /\ navLastAction' = NoValue
  /\ UNCHANGED <<persistState, navStorage, now, notNav>>

\* The effects of the first render: the restore effect, then the save effect (with
\* the state of that render), then the render and save of a restored state.
NavMountEffects ==
  /\ navPhase = "rendered"
  /\ navPhase' = "mounted"
  /\ LET restored == RestoredState(navState, navStorage, persistState, now)
         firstSave == SaveEffect(navState, navStorage, persistState)
     IN /\ navState' = restored
        /\ navStorage' = SaveEffect(restored, firstSave, persistState)
        /\ navLastAction' =
             IF restored # navState
             THEN [type |-> "SET_MOBILE_MENU", payload |-> navStorage.mobileMenuOpen]
             ELSE NoValue
  /\ UNCHANGED <<persistState, now, notNav>>

\* dispatch(action) from a context callback, the re-render and the save effect
\* (which runs when mobileMenuOpen or lastInteraction changed).
Dispatch(action) ==
  /\ navPhase = "mounted"
  /\ LET next == navigationReducer(navState, action, now)
     IN /\ navState' = next
        /\ navStorage' =
             IF next.mobileMenuOpen # navState.mobileMenuOpen
                \/ next.lastInteraction # navState.lastInteraction
             THEN SaveEffect(next, navStorage, persistState)
             ELSE navStorage
  /\ navLastAction' = action
  /\ UNCHANGED <<persistState, navPhase, now, notNav>>

toggleDropdown == \E l \in Labels : Dispatch([type |-> "TOGGLE_DROPDOWN", payload |-> l])
closeDropdown == \E l \in Labels : Dispatch([type |-> "CLOSE_DROPDOWN", payload |-> l])
closeAllDropdowns == Dispatch([type |-> "CLOSE_ALL_DROPDOWNS"])
setActiveItem == \E l \in Labels \cup {Null} : Dispatch([type |-> "SET_ACTIVE_ITEM", payload |-> l])
toggleMobileMenu == Dispatch([type |-> "TOGGLE_MOBILE_MENU"])
setMobileMenu == \E b \in BOOLEAN : Dispatch([type |-> "SET_MOBILE_MENU", payload |-> b])

\* The page is left: the provider and its state are gone, localStorage stays.
NavUnmount ==
  /\ navPhase = "mounted"
  /\ navPhase' = "unmounted"
  /\ UNCHANGED <<persistState, navState, navStorage, navLastAction, now, notNav>>

NavTick ==
  /\ now < EndTime
  /\ now' = now + 1
  /\ UNCHANGED <<navVars, notNav>>

NavInit ==
  /\ now = StartTime
  /\ persistState \in BOOLEAN
  /\ navPhase = "unmounted"
  /\ navState = initialState(StartTime)
  /\ navStorage = NoValue
  /\ navLastAction = NoValue
  /\ ticks = 0
  /\ DbIdle /\ ThIdle /\ LzIdle /\ MdIdle /\ CkIdle /\ GsIdle /\ UtIdle

NavNext ==
  \/ NavMount
  \/ NavMountEffects
  \/ toggleDropdown
  \/ closeDropdown
  \/ closeAllDropdowns
  \/ setActiveItem
  \/ toggleMobileMenu
  \/ setMobileMenu
  \/ NavUnmount
  \/ NavTick

SpecNav == NavInit /\ [][NavNext]_vars

IsToggle(action, l) ==
  action # NoValue /\ action.type = "TOGGLE_DROPDOWN" /\ action.payload = l

\* C1: every TOGGLE_DROPDOWN of label l flips whether l is in openDropdowns,
\* leaves every other label's membership as it was, and a second
\* TOGGLE_DROPDOWN of l right after it gives back the original set.
C1_ToggleFlipsAndRestores ==
  [][\A l \in Labels :
       (IsToggle(navLastAction', l) /\ navPhase = "mounted" /\ navPhase' = "mounted"
          /\ navVars' # navVars)
       => /\ (l \in navState'.openDropdowns) <=> (l \notin navState.openDropdowns)
          /\ \A m \in Labels \ {l} :
               (m \in navState'.openDropdowns) <=> (m \in navState.openDropdowns)
          /\ navigationReducer(navState', navLastAction', now').openDropdowns
               = navState.openDropdowns]_vars

\* C1 witness: a TOGGLE_DROPDOWN has just closed a label while another one is open.
C1_Witness ==
  /\ navPhase = "mounted"
  /\ \E l \in Labels : IsToggle(navLastAction, l) /\ l \notin navState.openDropdowns
  /\ navState.openDropdowns # {}

\* C3, as documented: with persistState, when the provider mounts and its restore
\* effect has run, the state's mobileMenuOpen is the value last saved under
\* 'navigation-state'.
C3_RestoresSavedMobileMenu ==
  [][(navPhase = "rendered" /\ navPhase' = "mounted" /\ persistState /\ navStorage # NoValue)
       => navState'.mobileMenuOpen = navStorage.mobileMenuOpen]_vars

(***************************************************************************)
(* Timers of the event loop: setTimeout(fn, delay) queues a timer that is  *)
(* due delay ms from now and runs at some time at or after that, unless    *)
(* clearTimeout removes it first. clearTimeout of a timer that has run or  *)
(* was cleared does nothing.                                               *)
(***************************************************************************)
\* Mutant: clearTimeout does nothing.
clearTimeout_Noop(timers, id) == timers

clearTimeout(timers, id) == {t \in timers : t.id # id}

Due(timers, t) == {x \in timers : x.due <= t}

Args == {"a", "b"}

(***************************************************************************)
(* useDebounce                                                             *)
(***************************************************************************)
\* debouncedCallback(...args): clear the timer the ref names, set a new one.
debouncedCallback(args) ==
  /\ Len(dbCalls) < MaxCalls
  /\ LET id == Len(dbCalls) + 1
         kept == IF dbTimeoutRef # 0 THEN clearTimeout(dbTimers, dbTimeoutRef) ELSE dbTimers
     IN /\ dbTimers' = kept \cup {[id |-> id, due |-> now + dbDelay, args |-> args]}
        /\ dbTimeoutRef' = id
  /\ dbCalls' = Append(dbCalls, [time |-> now, args |-> args])
  /\ UNCHANGED <<dbDelay, dbMounted, dbExecs, now, notDb>>

DbCall == \E a \in Args : debouncedCallback(a)

\* A due timer runs: callback(...args). The timer of call k has id k.
DbTimerFires ==
  /\ \E t \in Due(dbTimers, now) :
       /\ dbTimers' = dbTimers \ {t}
       /\ dbExecs' = Append(dbExecs, [time |-> now, args |-> t.args, call |-> t.id,
                                       ncalls |-> Len(dbCalls)])
  /\ UNCHANGED <<dbDelay, dbMounted, dbTimeoutRef, dbCalls, now, notDb>>

\* The cleanup of the hook's effect, at unmount.
DbUnmount ==
  /\ dbMounted
  /\ dbMounted' = FALSE
  /\ dbTimers' = IF dbTimeoutRef # 0 THEN clearTimeout(dbTimers, dbTimeoutRef) ELSE dbTimers
  /\ UNCHANGED <<dbDelay, dbTimeoutRef, dbCalls, dbExecs, now, notDb>>

DbTick ==
  /\ now < EndTime
  /\ now' = now + 1
  /\ UNCHANGED <<dbVars, notDb>>

DbInit ==
  /\ now = StartTime
  /\ dbDelay \in 0..MaxDelay
  /\ dbMounted = TRUE
  /\ dbTimeoutRef = 0
  /\ dbTimers = {}
  /\ dbCalls = <<>>
  /\ dbExecs = <<>>
  /\ ticks = 0
  /\ NavIdle /\ ThIdle /\ LzIdle /\ MdIdle /\ CkIdle /\ GsIdle /\ UtIdle

DbNext ==
  \/ DbCall
  \/ DbTimerFires
  \/ DbUnmount
  \/ DbTick

SpecDebounce == DbInit /\ [][DbNext]_vars

\* C4: the wrapped callback runs only for the most recent call, not before
\* `delay` has passed since that call, with that call's arguments, and at most
\* once per call; a call superseded by a later one never runs.
C4_DebounceRunsLastCallOnly ==
  /\ \A i \in 1..Len(dbExecs) :
       LET e == dbExecs[i]
       IN /\ e.call = e.ncalls
          /\ e.time >= dbCalls[e.call].time + dbDelay
          /\ e.args = dbCalls[e.call].args
          /\ \A j \in 1..Len(dbExecs) : dbExecs[j].call = e.call => j = i
  /\ \A t \in dbTimers : t.id = Len(dbCalls)

\* C4 witness: the second call came within the delay of the first one, and it is
\* the second call that has run, with its own arguments.
C4_Witness ==
  /\ Len(dbCalls) >= 2
  /\ dbCalls[2].time < dbCalls[1].time + dbDelay
  /\ dbCalls[2].args # dbCalls[1].args
  /\ Len(dbExecs) = 1
  /\ dbExecs[1].call = 2

(***************************************************************************)
(* useThrottle                                                             *)
(***************************************************************************)
\* Mutant: the test ignores the delay.
ThrottleOpen_Always(t, last, delay) == t - last >= 0

\* The test `now - lastCallRef.current >= delay`.
ThrottleOpen(t, last, delay) == t - last >= delay

throttledCallback(args) ==
  /\ Len(thCalls) < MaxCalls
  /\ thCalls' = Append(thCalls, [time |-> now, args |-> args])
  /\ IF ThrottleOpen(now, thLastCallRef, thDelay)
     THEN /\ thLastCallRef' = now
          /\ thExecs' = Append(thExecs, [time |-> now, args |-> args, call |-> Len(thCalls) + 1])
     ELSE UNCHANGED <<thLastCallRef, thExecs>>
  /\ UNCHANGED <<thDelay, now, notTh>>

ThCall == \E a \in Args : throttledCallback(a)

ThTick ==
  /\ now < EndTime
  /\ now' = now + 1
  /\ UNCHANGED <<thVars, notTh>>

ThInit ==
  /\ now = StartTime
  /\ thDelay \in 0..MaxDelay
  /\ thLastCallRef = 0
  /\ thCalls = <<>>
  /\ thExecs = <<>>
  /\ ticks = 0
  /\ NavIdle /\ DbIdle /\ LzIdle /\ MdIdle /\ CkIdle /\ GsIdle /\ UtIdle

ThNext ==
  \/ ThCall
  \/ ThTick

SpecThrottle == ThInit /\ [][ThNext]_vars

\* The executions before call k.
ExecsBefore(k) == {i \in 1..Len(thExecs) : thExecs[i].call < k}

\* C6: two executions of the wrapped callback are at least `delay` apart; an
\* execution happens during the call it belongs to (never later), and a call made
\* less than `delay` after the last execution is not executed at all.
C6_ThrottleSpacing ==
  /\ \A i, j \in 1..Len(thExecs) :
       i < j => thExecs[j].time - thExecs[i].time >= thDelay
  /\ \A i \in 1..Len(thExecs) :
       /\ thExecs[i].time = thCalls[thExecs[i].call].time
       /\ thExecs[i].args = thCalls[thExecs[i].call].args
  /\ \A k \in 1..Len(thCalls) :
       (\E i \in ExecsBefore(k) : thCalls[k].time - thExecs[i].time < thDelay)
       => \A i \in 1..Len(thExecs) : thExecs[i].call # k

\* C6 witness: a call was executed, a later call within the delay was dropped and
\* a call after the delay was executed again.
C6_Witness ==
  /\ Len(thCalls) = 3
  /\ Len(thExecs) = 2
  /\ thExecs[1].call = 1
  /\ thExecs[2].call = 3
  /\ thCalls[2].time > thCalls[1].time

(***************************************************************************)
(* useLazyDropdown                                                         *)
(***************************************************************************)
\* Mutant: the timer is set without the delay.
LzTimerDue_Immediate(t, delay) == t

\* When the timer set by setTimeout(..., delay) at time t is due.
LzTimerDue(t, delay) == t + delay

\* The effect's cleanup: clear the timer the ref names.
LzCleanup(timers, ref) == IF ref # 0 THEN clearTimeout(timers, ref) ELSE timers

\* The effect body, run with isOpen = open after the cleanup left `timers`.
LzEffect(open, timers) ==
  IF open
  THEN /\ lzTimeoutRef' = lzTimeoutRef + 1
       /\ lzTimers' = timers \cup {[id |-> lzTimeoutRef + 1, due |-> LzTimerDue(now, lzDelay)]}
       /\ lzShouldRender' = lzShouldRender
  ELSE /\ lzTimeoutRef' = lzTimeoutRef
       /\ lzTimers' = LzCleanup(timers, lzTimeoutRef)
       /\ lzShouldRender' = FALSE

\* The first render, with isOpen = open: state false, ref unset, the effect runs.
LzMount ==
  /\ lzMounted = "no"
  /\ \E open \in BOOLEAN :
       /\ lzIsOpen' = open
       /\ lzOpenSince' = IF open THEN now ELSE lzOpenSince
       /\ LzEffect(open, lzTimers)
  /\ lzMounted' = "yes"
  /\ UNCHANGED <<lzDelay, now, notLz>>

\* A render with isOpen changed: the previous effect's cleanup, then the effect.
LzSetOpen ==
  /\ lzMounted = "yes"
  /\ lzTimeoutRef < MaxCalls
  /\ lzIsOpen' = ~lzIsOpen
  /\ lzOpenSince' = IF lzIsOpen' THEN now ELSE lzOpenSince
  /\ LzEffect(lzIsOpen', LzCleanup(lzTimers, lzTimeoutRef))
  /\ UNCHANGED <<lzDelay, lzMounted, now, notLz>>

\* A due timer runs: setShouldRender(true).
LzTimerFires ==
  /\ \E t \in Due(lzTimers, now) :
       /\ lzTimers' = lzTimers \ {t}
       /\ lzShouldRender' = TRUE
  /\ UNCHANGED <<lzDelay, lzMounted, lzIsOpen, lzTimeoutRef, lzOpenSince, now, notLz>>

\* Unmount: the effect's cleanup; the component and its state are gone.
LzUnmount ==
  /\ lzMounted = "yes"
  /\ lzMounted' = "gone"
  /\ lzTimers' = LzCleanup(lzTimers, lzTimeoutRef)
  /\ UNCHANGED <<lzDelay, lzIsOpen, lzShouldRender, lzTimeoutRef, lzOpenSince, now, notLz>>

LzTick ==
  /\ now < EndTime
  /\ now' = now + 1
  /\ UNCHANGED <<lzVars, notLz>>

LzInit ==
  /\ now = StartTime
  /\ lzDelay \in 0..MaxDelay
  /\ lzMounted = "no"
  /\ lzIsOpen = FALSE
  /\ lzShouldRender = FALSE
  /\ lzTimeoutRef = 0
  /\ lzTimers = {}
  /\ lzOpenSince = 0
  /\ ticks = 0
  /\ NavIdle /\ DbIdle /\ ThIdle /\ MdIdle /\ CkIdle /\ GsIdle /\ UtIdle

LzNext ==
  \/ LzMount
  \/ LzSetOpen
  \/ LzTimerFires
  \/ LzUnmount
  \/ LzTick

SpecLazy == LzInit /\ [][LzNext]_vars

ExitDelay == 300

\* Mutant: the exit timer is set for twice the delay.
MdHideDue_Late(t) == t + 2 * ExitDelay

\* When the timer set at time t by the visibility effect is due.
MdHideDue(t) == t + ExitDelay

\* Mutant: handleClickOutside closes for a target inside the container.
handleClickOutside_Inside(refSet, target) == refSet /\ target = "inside"

\* handleClickOutside: whether onClose is called for a mousedown on `target`
\* ("inside" or "outside" the container), modalRef.current being set or not.
handleClickOutside(refSet, target) == refSet /\ target # "inside"

\* handleEscape: whether onClose is called for a keydown of `key`.
handleEscape(key, open) == key = "Escape" /\ open

\* The effects of a render with isOpen = open, after the cleanups of the
\* previous render's effects (which cleared its timer and removed its listeners).
MdEffects(open) ==
  /\ mdIsOpen' = open
  /\ IF open
     THEN /\ mdIsVisible' = TRUE
          /\ mdHideTimer' = NoValue
     ELSE /\ mdIsVisible' = mdIsVisible
          /\ mdHideTimer' = [due |-> MdHideDue(now)]
  /\ mdMouseDown' = open
  /\ mdKeyDown' = open

\* The first render (isVisible is false, nothing is rendered) and its effects.
MdMount ==
  /\ mdMounted = "no"
  /\ mdMounted' = "yes"
  /\ \E open \in BOOLEAN : MdEffects(open)
  /\ mdLastEvent' = "none"
  /\ UNCHANGED <<mdOnCloseCalls, now, ticks, notMd>>

\* The parent renders the modal with isOpen changed.
MdSetOpen ==
  /\ mdMounted = "yes"
  /\ MdEffects(~mdIsOpen)
  /\ mdLastEvent' = "none"
  /\ UNCHANGED <<mdMounted, mdOnCloseCalls, now, ticks, notMd>>

\* The exit timer runs: setIsVisible(false).
MdHideTimerFires ==
  /\ mdHideTimer # NoValue
  /\ mdHideTimer.due <= now
  /\ mdIsVisible' = FALSE
  /\ mdHideTimer' = NoValue
  /\ mdLastEvent' = "none"
  /\ UNCHANGED <<mdMounted, mdIsOpen, mdMouseDown, mdKeyDown, mdOnCloseCalls, now, ticks, notMd>>

\* onClose() is invoked (when `called`); the parent may answer by rendering the
\* modal with isOpen false, as in onClose={() => setIsModalOpen(false)}.
MdOnClose(called) ==
  IF called
  THEN /\ mdOnCloseCalls' = mdOnCloseCalls + 1
       /\ \E closes \in BOOLEAN :
            IF closes /\ mdIsOpen
            THEN MdEffects(FALSE)
            ELSE UNCHANGED <<mdIsOpen, mdIsVisible, mdHideTimer, mdMouseDown, mdKeyDown>>
  ELSE UNCHANGED <<mdIsOpen, mdIsVisible, mdHideTimer, mdMouseDown, mdKeyDown, mdOnCloseCalls>>

\* A key goes down.
MdKeyDownEvent ==
  /\ mdMounted = "yes"
  /\ mdOnCloseCalls < MaxCloses
  /\ \E key \in {"Escape", "Enter"} :
       /\ mdLastEvent' = key
       /\ MdOnClose(mdKeyDown /\ handleEscape(key, mdIsOpen))
  /\ UNCHANGED <<mdMounted, now, ticks, notMd>>

\* The mouse goes down inside or outside the modal container.
MdMouseDownEvent ==
  /\ mdMounted = "yes"
  /\ mdOnCloseCalls < MaxCloses
  /\ \E target \in {"inside", "outside"} :
       /\ mdLastEvent' = target
       /\ MdOnClose(mdMouseDown /\ handleClickOutside(mdIsVisible, target))
  /\ UNCHANGED <<mdMounted, now, ticks, notMd>>

\* The Close button (rendered while isVisible) is clicked: onClick={onClose}.
MdClickClose ==
  /\ mdMounted = "yes"
  /\ mdOnCloseCalls < MaxCloses
  /\ mdIsVisible
  /\ mdLastEvent' = "Close"
  /\ MdOnClose(TRUE)
  /\ UNCHANGED <<mdMounted, now, ticks, notMd>>

\* Unmount: the cleanups clear the timer and remove the listeners.
MdUnmount ==
  /\ mdMounted = "yes"
  /\ mdMounted' = "gone"
  /\ mdHideTimer' = NoValue
  /\ mdMouseDown' = FALSE
  /\ mdKeyDown' = FALSE
  /\ mdLastEvent' = "none"
  /\ UNCHANGED <<mdIsOpen, mdIsVisible, mdOnCloseCalls, now, ticks, notMd>>

MdTick ==
  /\ ticks < MaxTicks
  /\ ticks' = ticks + 1
  /\ \E d \in {1, ExitDelay - 1, ExitDelay} : now' = now + d
  /\ mdLastEvent' = "none"
  /\ UNCHANGED <<mdMounted, mdIsOpen, mdIsVisible, mdHideTimer, mdMouseDown, mdKeyDown,
                 mdOnCloseCalls, notMd>>

MdInit ==
  /\ now = StartTime
  /\ ticks = 0
  /\ MdIdle /\ CkIdle /\ GsIdle /\ UtIdle
  /\ NavIdle /\ DbIdle /\ ThIdle /\ LzIdle

MdNext ==
  \/ MdMount
  \/ MdSetOpen
  \/ MdHideTimerFires
  \/ MdKeyDownEvent
  \/ MdMouseDownEvent
  \/ MdClickClose
  \/ MdUnmount
  \/ MdTick

SpecModal == MdInit /\ [][MdNext]_vars

\* C7: while the modal is open and displayed, pressing Escape, pressing the
\* mouse outside the container and clicking Close each invoke onClose.
C7_GesturesInvokeOnClose ==
  [][(mdMounted = "yes" /\ mdIsOpen /\ mdIsVisible
        /\ mdLastEvent' \in {"Escape", "outside", "Close"})
       => mdOnCloseCalls' = mdOnCloseCalls + 1]_vars

\* C7 witness: onClose has been invoked by a mousedown outside an open modal.
C7_Witness ==
  /\ mdMounted = "yes"
  /\ mdLastEvent = "outside"
  /\ mdOnCloseCalls = 1
  /\ mdIsVisible

DefaultAutoShowDelay == 1000
DefaultHideForHours == 3
AnimationDuration == 500
EntranceDelay == 50

MsPerHour == 60 * 60 * 1000

\* A default parameter value: used when the argument is undefined.
DefaultParam(prop, default) == IF prop.set THEN prop.value ELSE default

HideForHours == DefaultParam(ckHideForHours, DefaultHideForHours)
AutoShowDelay == DefaultParam(ckAutoShowDelay, DefaultAutoShowDelay)

\* The key under which the hooks and the utilities keep the acceptance record:
\* COOKIES_CONFIG.content.defaultMessage.
AcceptanceKey == DEFAULT_COOKIES_MESSAGE

\* Mutant: the acceptance still counts at exactly hideForHours hours.
checkCookieAcceptance_Inclusive(storage, hours, t) ==
  /\ storage[AcceptanceKey] # NoValue
  /\ (t - storage[AcceptanceKey].timestamp) <= hours * MsPerHour

\* checkCookieAcceptance: whether an acceptance is stored and younger than
\* hideForHours hours (JSON.parse gives back the record storeCookieAcceptance
\* stringified).
checkCookieAcceptance(storage, hours, t) ==
  /\ storage[AcceptanceKey] # NoValue
  /\ (t - storage[AcceptanceKey].timestamp) < hours * MsPerHour

\* storeCookieAcceptance: the record written, and where.
storeCookieAcceptance(storage, t) ==
  [storage EXCEPT ![AcceptanceKey] = [timestamp |-> t, accepted |-> TRUE]]

\* The component mounts: state all false, then the initialization effect of
\* useBannerInitialization.
CkMount ==
  /\ ~ckMounted
  /\ ckMounted' = TRUE
  /\ ckState' = [isVisible |-> FALSE, isAnimating |-> FALSE, shouldRender |-> FALSE]
  /\ ckLastAccess' = [op |-> "getItem", key |-> AcceptanceKey]
  /\ ckTimers' = IF ~checkCookieAcceptance(localStorage, HideForHours, now)
                 THEN {[kind |-> "init", due |-> now + AutoShowDelay]}
                 ELSE {}
  /\ ckMountedAt' = now
  /\ ckAcceptedHere' = FALSE
  /\ UNCHANGED <<ckHideForHours, ckAutoShowDelay, localStorage, now, ticks, notCk>>

\* A due timer runs.
\*   init:  handleVisibility(true) = showBanner(): shouldRender, and a timer for isVisible
\*   show:  isVisible := true
\*   hide:  shouldRender := false, isAnimating := false
CkTimerFires ==
  /\ ckMounted
  /\ \E t \in Due(ckTimers, now) :
       CASE t.kind = "init" ->
              /\ ckState' = [ckState EXCEPT !.shouldRender = TRUE]
              /\ ckTimers' = (ckTimers \ {t}) \cup {[kind |-> "show", due |-> now + EntranceDelay]}
         [] t.kind = "show" ->
              /\ ckState' = [ckState EXCEPT !.isVisible = TRUE]
              /\ ckTimers' = ckTimers \ {t}
         [] t.kind = "hide" ->
              /\ ckState' = [ckState EXCEPT !.shouldRender = FALSE, !.isAnimating = FALSE]
              /\ ckTimers' = ckTimers \ {t}
  /\ UNCHANGED <<ckHideForHours, ckAutoShowDelay, localStorage, ckLastAccess, ckMounted,
                 ckMountedAt, ckAcceptedHere, now, ticks, notCk>>

\* The button of the rendered banner is clicked (or Escape is pressed on it):
\* handleAccept(onAccept), then handleVisibility(false) = hideBanner().
CkAccept ==
  /\ ckMounted
  /\ ckState.shouldRender
  /\ localStorage' = storeCookieAcceptance(localStorage, now)
  /\ ckLastAccess' = [op |-> "setItem", key |-> AcceptanceKey]
  /\ ckState' = [ckState EXCEPT !.isVisible = FALSE, !.isAnimating = TRUE]
  /\ ckTimers' = ckTimers \cup {[kind |-> "hide", due |-> now + AnimationDuration]}
  /\ ckAcceptedHere' = TRUE
  /\ UNCHANGED <<ckHideForHours, ckAutoShowDelay, ckMounted, ckMountedAt, now, ticks, notCk>>

\* The page is left: the effect's cleanup clears the init timer; the timers of
\* showBanner and hideBanner would set the state of a component that is gone.
CkUnmount ==
  /\ ckMounted
  /\ ckMounted' = FALSE
  /\ ckTimers' = {}
  /\ UNCHANGED <<ckHideForHours, ckAutoShowDelay, localStorage, ckLastAccess, ckState,
                 ckMountedAt, ckAcceptedHere, now, ticks, notCk>>

CkTick ==
  /\ ticks < MaxTicks
  /\ ticks' = ticks + 1
  /\ \E d \in {1, DefaultAutoShowDelay, MsPerHour} : now' = now + d
  /\ UNCHANGED <<ckVars, notCk>>

CkInit ==
  /\ now = StartTime
  /\ ticks = 0
  /\ ckHideForHours \in {Unset, Given(1)}
  /\ ckAutoShowDelay \in {Unset, Given(0)}
  /\ localStorage = [k \in StorageKeys |-> NoValue]
  /\ ckLastAccess = NoValue
  /\ ckMounted = FALSE
  /\ ckState = [isVisible |-> FALSE, isAnimating |-> FALSE, shouldRender |-> FALSE]
  /\ ckTimers = {}
  /\ ckMountedAt = 0
  /\ ckAcceptedHere = FALSE
  /\ NavIdle /\ DbIdle /\ ThIdle /\ LzIdle /\ MdIdle /\ GsIdle /\ UtIdle

CkNext ==
  \/ CkMount
  \/ CkTimerFires
  \/ CkAccept
  \/ CkUnmount
  \/ CkTick

SpecCookies == CkInit /\ [][CkNext]_vars

\* The acceptance the banner stored last, if any.
Accepted == localStorage[AcceptanceKey]

\* C2: after an acceptance at time T, a later mount before T + hideForHours
\* hours never shows the banner (nothing is rendered and no timer will show
\* it); a later mount at or after T + hideForHours hours has the banner's
\* timer set for autoShowDelay after the mount, or, that timer having run at or
\* after its time, shows the banner.
C2_BannerHiddenForHours ==
  (ckMounted /\ ~ckAcceptedHere /\ Accepted # NoValue)
  => IF ckMountedAt - Accepted.timestamp < HideForHours * MsPerHour
     THEN ~ckState.shouldRender /\ ckTimers = {}
     ELSE \/ ckTimers = {[kind |-> "init", due |-> ckMountedAt + AutoShowDelay]}
             /\ ~ckState.shouldRender
          \/ ckState.shouldRender /\ now >= ckMountedAt + AutoShowDelay

\* C2 witness: a mount exactly hideForHours hours after the acceptance shows
\* the banner again.
C2_Witness ==
  /\ ckMounted /\ ~ckAcceptedHere /\ Accepted # NoValue
  /\ ckMountedAt - Accepted.timestamp = HideForHours * MsPerHour
  /\ ckState.shouldRender

\* C9, as documented: every read and write of the acceptance record in
\* localStorage uses COOKIES_STORAGE_KEY.
C9_AcceptanceUnderStorageKey ==
  /\ ckLastAccess # NoValue => ckLastAccess.key = COOKIES_STORAGE_KEY
  /\ \A k \in StorageKeys : localStorage[k] # NoValue => k = COOKIES_STORAGE_KEY

(***************************************************************************)
(* JavaScript values, as the validation utilities see them. A string is    *)
(* the sequence of its characters.                                         *)
(***************************************************************************)
Absent == [t |-> "absent"]            \* the object has no such property
Undefined == [t |-> "undefined"]
JsNull == [t |-> "null"]
Num(n) == [t |-> "number", n |-> n]
Bool(b) == [t |-> "boolean", b |-> b]
Str(s) == [t |-> "string", s |-> s]
Arr(items) == [t |-> "array", items |-> items]

\* Reading a property: undefined when the object has none.
Get(v) == IF v = Absent THEN Undefined ELSE v

\* !v is false.
Truthy(v) ==
  CASE v.t = "string" -> Len(v.s) > 0
    [] v.t = "number" -> v.n # 0
    [] v.t = "boolean" -> v.b
    [] v.t \in {"undefined", "null", "absent"} -> FALSE
    [] OTHER -> TRUE

RECURSIVE TrimStart(_)
TrimStart(s) == IF Len(s) > 0 /\ Head(s) = " " THEN TrimStart(Tail(s)) ELSE s

RECURSIVE TrimEnd(_)
TrimEnd(s) ==
  IF Len(s) > 0 /\ s[Len(s)] = " " THEN TrimEnd(SubSeq(s, 1, Len(s) - 1)) ELSE s

\* String.prototype.trim
Trim(s) == TrimEnd(TrimStart(s))

\* String.prototype.startsWith, for a one-character prefix.
StartsWith(s, c) == Len(s) > 0 /\ s[1] = c

Letters == {"a", "U", "n", "k", "o", "w"}

\* Whether new URL(s) returns (no base is given): after stripping the spaces
\* around it, s must begin with a scheme, letters up to a ":".
UrlParses(s) ==
  LET u == Trim(s)
  IN \E i \in 2..Len(u) : u[i] = ":" /\ \A j \in 1..(i - 1) : u[j] \in Letters

FlagFields == {"hasDropdown", "isActive", "external", "nofollow"}

\* validateNavigationItem(item): TRUE when it returns, FALSE when it throws.
RECURSIVE validateNavigationItem(_)
validateNavigationItem(item) ==
  /\ item.t = "object"
  /\ LET label == Get(item.label)
         href == Get(item.href)
         submenu == Get(item.submenu)
     IN /\ Truthy(label) /\ label.t = "string" /\ Len(Trim(label.s)) # 0
        /\ Truthy(href) /\ href.t = "string" /\ Len(Trim(href.s)) # 0
        /\ UrlParses(href.s) \/ StartsWith(href.s, "/") \/ StartsWith(href.s, "#")
        /\ \A f \in FlagFields : Get(item[f]) = Undefined \/ Get(item[f]).t = "boolean"
        /\ (Truthy(submenu) /\ submenu.t = "array")
           => \A i \in 1..Len(submenu.items) : validateNavigationItem(submenu.items[i])

\* `a || b`
OrElse(a, b) == IF Truthy(a) THEN a ELSE b

\* { label: ..., href: ..., ...fallback }: a property of fallback, whatever its
\* value, replaces the one written before the spread.
Spread(base, over) ==
  [f \in DOMAIN base |-> IF f = "t" \/ over[f] = Absent THEN base[f] ELSE over[f]]

Unknown == <<"U", "n", "k", "n", "o", "w", "n">>

EmptyObject ==
  [t |-> "object", label |-> Absent, href |-> Absent, hasDropdown |-> Absent,
   isActive |-> Absent, external |-> Absent, nofollow |-> Absent, submenu |-> Absent]

\* getSafeNavigationItem(item, fallback)
getSafeNavigationItem(item, fallback) ==
  IF validateNavigationItem(item)
  THEN item
  ELSE Spread([EmptyObject EXCEPT !.label = OrElse(Get(fallback.label), Str(Unknown)),
                                  !.href = OrElse(Get(fallback.href), Str(<<"#">>))],
              fallback)

\* ---- the arguments the function is given
Chars == {"a", " ", "/", "#", ":"}
Strings == UNION {[1..n -> Chars] : n \in 0..MaxStrLen}

SubItemOk == [EmptyObject EXCEPT !.label = Str(<<"a">>), !.href = Str(<<"/">>)]
SubItemBad == [EmptyObject EXCEPT !.label = Str(<<"a">>)]
Submenus == {Arr(<<>>), Arr(<<SubItemOk>>), Arr(<<SubItemOk, SubItemBad>>)}

\* Objects with one optional property at most.
WithOptional(obj, flagValues) ==
  {obj} \cup {[obj EXCEPT ![f] = v] : f \in FlagFields, v \in flagValues}
        \cup {[obj EXCEPT !.submenu = m] : m \in Submenus}

ItemLabels == {Absent, Num(7), Str(<<>>), Str(<<" ">>), Str(<<"a">>)}
ItemHrefs == {Absent, Num(7)} \cup {Str(s) : s \in Strings}

ItemInputs ==
  {JsNull, Str(<<"a">>)}
  \cup UNION {WithOptional([EmptyObject EXCEPT !.label = l, !.href = h], {Bool(TRUE), Str(<<"a">>)}) :
                l \in ItemLabels, h \in ItemHrefs}

\* Partial<NavigationItem>: every property is absent, undefined or of its type.
FallbackLabels == {Absent, Undefined, Str(<<>>), Str(<<" ">>), Str(<<"a">>)}
FallbackHrefs == {Absent, Undefined, Str(<<>>), Str(<<"#">>), Str(<<"/">>), Str(<<"a">>),
                  Str(<<"a", ":">>)}

FallbackInputs ==
  UNION {{o, [o EXCEPT !.hasDropdown = Bool(TRUE)], [o EXCEPT !.submenu = Arr(<<SubItemOk>>)]} :
           o \in {[EmptyObject EXCEPT !.label = l, !.href = h] :
                    l \in FallbackLabels, h \in FallbackHrefs}}

GsCall ==
  /\ gsResult = NoValue
  /\ gsResult' = getSafeNavigationItem(gsItem, gsFallback)
  /\ UNCHANGED <<gsItem, gsFallback, notGs>>

GsInit ==
  /\ now = StartTime
  /\ ticks = 0
  /\ gsItem \in ItemInputs
  /\ gsFallback \in FallbackInputs
  /\ gsResult = NoValue
  /\ NavIdle /\ DbIdle /\ ThIdle /\ LzIdle /\ MdIdle /\ CkIdle /\ UtIdle

GsNext == GsCall

SpecSafeNav == GsInit /\ [][GsNext]_vars

\* C10, as documented: whatever the item and the fallback, getSafeNavigationItem
\* returns an item that validateNavigationItem accepts.
C10_SafeItemIsValid ==
  gsResult # NoValue => validateNavigationItem(gsResult)

(***************************************************************************)
(* Cookies utilities: parseCookieAcceptanceData. A JSON text is the        *)
(* sequence of its tokens; the keys and string values of the record are    *)
(* kept whole, since nothing looks inside them.                            *)
(***************************************************************************)
Punct(c) == [k |-> "punct", c |-> c]
Lit(w) == [k |-> "literal", w |-> w]
NumTok(n) == [k |-> "number", n |-> n]
StrTok(w) == [k |-> "string", w |-> w]
Junk == [k |-> "junk"]

\* A string holding JSON text.
Text(toks) == [t |-> "string", toks |-> toks]

\* An object, by its own properties.
Obj(props) == [t |-> "object", props |-> props]

\* obj[key]
Prop(obj, key) == IF key \in DOMAIN obj.props THEN obj.props[key] ELSE Undefined

SyntaxError == [t |-> "SyntaxError"]

IsScalarTok(tok) == tok.k \in {"number", "string", "literal"}

ScalarOf(tok) ==
  CASE tok.k = "number" -> Num(tok.n)
    [] tok.k = "string" -> Str(tok.w)
    [] tok.k = "literal" -> IF tok.w = "null" THEN JsNull ELSE Bool(tok.w = "true")

\* The members of an object, read after "{" or ","; props holds those read so far.
RECURSIVE ParseMembers(_, _)
ParseMembers(toks, props) ==
  IF Len(toks) >= 4 /\ toks[1].k = "string" /\ toks[2] = Punct(":") /\ IsScalarTok(toks[3])
  THEN LET key == toks[1].w
           more == [x \in DOMAIN props \cup {key} |->
                      IF x = key THEN ScalarOf(toks[3]) ELSE props[x]]
       IN IF toks[4] = Punct("}")
          THEN IF Len(toks) = 4 THEN Obj(more) ELSE SyntaxError
          ELSE IF toks[4] = Punct(",")
               THEN ParseMembers(SubSeq(toks, 5, Len(toks)), more)
               ELSE SyntaxError
  ELSE SyntaxError

\* JSON.parse, for scalars and objects of scalars: the value, or SyntaxError
\* when it throws.
JsonParse(toks) ==
  IF Len(toks) = 0 THEN SyntaxError
  ELSE IF Len(toks) = 1
       THEN IF IsScalarTok(toks[1]) THEN ScalarOf(toks[1]) ELSE SyntaxError
       ELSE IF toks[1] = Punct("{")
            THEN IF toks = <<Punct("{"), Punct("}")>>
                 THEN Obj(<<>>)
                 ELSE ParseMembers(Tail(toks), <<>>)
            ELSE SyntaxError

\* maxAge, 1 year. The clock of this section counts seconds, not milliseconds:
\* timestamps are compared and subtracted only, and a year of milliseconds is
\* beyond the integers of the model checker.
MaxAge == 365 * 24 * 60 * 60

\* validateCookieAcceptanceData(data) at Date.now() = t: TRUE when it returns,
\* FALSE when it throws CookiesError.
validateCookieAcceptanceData(data, t) ==
  /\ data.t = "object"
  /\ Prop(data, "timestamp").t = "number"
  /\ Prop(data, "accepted").t = "boolean"
  /\ ~(Prop(data, "timestamp").n > t)
  /\ ~(t - Prop(data, "timestamp").n > MaxAge)

Return(v) == [kind |-> "return", value |-> v]
Throw(e) == [kind |-> "throw", error |-> e]

\* parseCookieAcceptanceData(data) at Date.now() = t
parseCookieAcceptanceData(data, t) ==
  IF data = JsNull \/ Len(data.toks) = 0
  THEN Return(JsNull)
  ELSE LET parsed == JsonParse(data.toks)
       IN IF parsed = SyntaxError
          THEN Throw("CookiesError")
          ELSE IF validateCookieAcceptanceData(parsed, t)
               THEN Return(parsed)
               ELSE Throw("CookiesError")

\* ---- the strings the function is given
Member(key, tok) == <<StrTok(key), Punct(":"), tok>>

TimestampToks(t) ==
  {NumTok(t + 1), NumTok(t), NumTok(t - 1), NumTok(t - MaxAge), NumTok(t - MaxAge - 1),
   StrTok("soon")}
AcceptedToks == {Lit("true"), Lit("false"), Lit("null"), StrTok("yes")}

ObjectTexts(t) ==
  {<<Punct("{"), Punct("}")>>}
  \cup {<<Punct("{")>> \o Member("timestamp", ts) \o <<Punct("}")>> : ts \in TimestampToks(t)}
  \cup {<<Punct("{")>> \o Member("accepted", a) \o <<Punct("}")>> : a \in AcceptedToks}
  \cup {<<Punct("{")>> \o Member("timestamp", ts) \o <<Punct(",")>> \o Member("accepted", a)
          \o <<Punct("}")>> : ts \in TimestampToks(t), a \in AcceptedToks}
  \cup {<<Punct("{")>> \o Member("accepted", a) \o <<Punct(",")>> \o Member("timestamp", ts)
          \o <<Punct("}")>> : ts \in TimestampToks(t), a \in AcceptedToks}

\* A text cut short of its last token.
Truncated(toks) == SubSeq(toks, 1, Len(toks) - 1)

DataInputs(t) ==
  {JsNull, Text(<<>>), Text(<<Junk>>), Text(<<NumTok(t)>>), Text(<<Lit("null")>>),
   Text(<<Lit("true")>>), Text(<<StrTok("yes")>>)}
  \cup {Text(toks) : toks \in ObjectTexts(t)}
  \cup {Text(Truncated(toks)) : toks \in ObjectTexts(t)}

PcCall ==
  /\ pcResult = NoValue
  /\ pcResult' = parseCookieAcceptanceData(pcData, now)
  /\ UNCHANGED <<pcData, smUrls, smXml, rdState, rdAction, rdResult, ttContent, ttResult,
                 now, notUt>>

PcInit ==
  /\ now = MaxAge + StartTime
  /\ ticks = 0
  /\ pcData \in DataInputs(now)
  /\ pcResult = NoValue
  /\ SmIdle /\ RdIdle /\ TtIdle
  /\ NavIdle /\ DbIdle /\ ThIdle /\ LzIdle /\ MdIdle /\ CkIdle /\ GsIdle

PcNext == PcCall

SpecParseCookie == PcInit /\ [][PcNext]_vars

\* The stored string is valid: it is there, it parses and the record passes
\* validateCookieAcceptanceData.
PcValid(data, t) ==
  /\ data # JsNull
  /\ JsonParse(data.toks) # SyntaxError
  /\ validateCookieAcceptanceData(JsonParse(data.toks), t)

\* C11, as documented: parseCookieAcceptanceData returns the parsed record when
\* the stored string is valid, and returns null when the string is missing or
\* invalid (malformed JSON, wrong field types, timestamp in the future or older
\* than one year).
C11_ParseReturnsRecordOrNull ==
  pcResult # NoValue
  => pcResult = IF PcValid(pcData, now)
                THEN Return(JsonParse(pcData.toks))
                ELSE Return(JsNull)

(***************************************************************************)
(* SEO: generateSitemap. A string is the sequence of its pieces: the       *)
(* characters of a loc, and whole tags, line ends and indentations of the  *)
(* template. A priority is counted in tenths: Num(8) is 0.8.               *)
(***************************************************************************)
\* SEO_CONFIG.site.url, with NEXT_PUBLIC_SITE_URL unset
BaseUrl == <<"h", "t", "t", "p", "s", ":", "/", "/", "i", "f", ".", "f", "u", "n", "d">>

\* new Date().toISOString().split('T')[0]
CurrentDate == <<"2026-11-02">>

\* String.prototype.startsWith
StartsWithSeq(str, prefix) ==
  Len(str) >= Len(prefix) /\ SubSeq(str, 1, Len(prefix)) = prefix

Digit(d) == <<"0", "1", "2", "3", "4", "5", "6", "7", "8", "9">>[d + 1]

\* `${priority}`: Number to string, for n tenths (1.0 prints as 1).
NumberToString(n) ==
  IF n % 10 = 0 THEN <<Digit(n \div 10)>> ELSE <<Digit(n \div 10), ".", Digit(n % 10)>>

\* What a template prints for a value.
ToText(v) == IF v.t = "number" THEN NumberToString(v.n) ELSE v.s

\* Array.prototype.join
RECURSIVE Join(_, _)
Join(strs, sep) ==
  IF Len(strs) = 0 THEN <<>>
  ELSE IF Len(strs) = 1 THEN strs[1]
       ELSE strs[1] \o sep \o Join(Tail(strs), sep)

\* fullUrl
FullUrl(loc) ==
  IF StartsWithSeq(loc, <<"h", "t", "t", "p">>) THEN loc ELSE BaseUrl \o loc

\* The callback of urls.map
SitemapUrlBlock(url) ==
  LET fullUrl == FullUrl(url.loc.s)
      lastmod == OrElse(Get(url.lastmod), Str(CurrentDate))
      changefreq == OrElse(Get(url.changefreq), Str(<<"weekly">>))
      priority == OrElse(Get(url.priority), Num(8))
  IN <<"  ", "<url>", "\n">>
     \o <<"    ", "<loc>">> \o fullUrl \o <<"</loc>", "\n">>
     \o <<"    ", "<lastmod>">> \o ToText(lastmod) \o <<"</lastmod>", "\n">>
     \o <<"    ", "<changefreq>">> \o ToText(changefreq) \o <<"</changefreq>", "\n">>
     \o <<"    ", "<priority>">> \o ToText(priority) \o <<"</priority>", "\n">>
     \o <<"  ", "</url>">>

\* generateSitemap(urls)
generateSitemap(urls) ==
  LET sitemapUrls == Join([i \in 1..Len(urls) |-> SitemapUrlBlock(urls[i])], <<"\n">>)
  IN <<"<?xml version=\"1.0\" encoding=\"UTF-8\"?>", "\n",
       "<urlset xmlns=\"http://www.sitemaps.org/schemas/sitemap/0.9\">", "\n">>
     \o sitemapUrls
     \o <<"\n", "</urlset>">>

\* ---- the lists the function is given
Locs ==
  {Str(<<"/">>), Str(<<"/", "a">>), Str(<<"h", "t", "t", "p", ":", "/", "/", "a">>),
   Str(<<"h", "t", "t">>), Str(<<>>)}
Priorities == {Absent, Num(0), Num(5), Num(8), Num(10)}
Lastmods == {Absent, Str(<<"2024-01-01">>)}
Changefreqs == {Absent, Str(<<"daily">>)}

SitemapUrls ==
  [loc : Locs, lastmod : Lastmods, changefreq : Changefreqs, priority : Priorities]

UrlLists == UNION {[1..n -> SitemapUrls] : n \in 0..MaxUrls}

SmCall ==
  /\ smXml = NoValue
  /\ smXml' = Str(generateSitemap(smUrls))
  /\ UNCHANGED <<smUrls, pcData, pcResult, rdState, rdAction, rdResult, ttContent, ttResult,
                 now, notUt>>

SmInit ==
  /\ now = StartTime
  /\ ticks = 0
  /\ smUrls \in UrlLists
  /\ smXml = NoValue
  /\ PcIdle /\ RdIdle /\ TtIdle
  /\ NavIdle /\ DbIdle /\ ThIdle /\ LzIdle /\ MdIdle /\ CkIdle /\ GsIdle

SmNext == SmCall

SpecSitemap == SmInit /\ [][SmNext]_vars

\* The contents of the elements <tag>...</tag> of a text, in order.
RECURSIVE Elements(_, _, _)
Elements(text, open, close) ==
  IF \A i \in 1..Len(text) : text[i] # open THEN <<>>
  ELSE LET i == CHOOSE i \in 1..Len(text) :
                  text[i] = open /\ \A j \in 1..(i - 1) : text[j] # open
           rest == SubSeq(text, i + 1, Len(text))
           j == CHOOSE j \in 1..Len(rest) :
                  rest[j] = close /\ \A m \in 1..(j - 1) : rest[m] # close
       IN <<SubSeq(rest, 1, j - 1)>> \o Elements(SubSeq(rest, j + 1, Len(rest)), open, close)

LocElements == Elements(smXml.s, "<loc>", "</loc>")
PriorityElements == Elements(smXml.s, "<priority>", "</priority>")

\* C12, as documented: generateSitemap emits one <loc> element per entry, in
\* input order, holding the entry's loc as given (loc '/' gives <loc>/</loc>).
C12_LocEmittedAsGiven ==
  smXml # NoValue
  => /\ Len(LocElements) = Len(smUrls)
     /\ \A i \in 1..Len(smUrls) : LocElements[i] = smUrls[i].loc.s

\* C13, as documented: the <priority> element of every entry holds the entry's
\* priority, anywhere in 0.0 to 1.0; 0.8 is emitted for the entries that give
\* none.
C13_PriorityEmittedAsGiven ==
  smXml # NoValue
  => /\ Len(PriorityElements) = Len(smUrls)
     /\ \A i \in 1..Len(smUrls) :
          PriorityElements[i] = IF smUrls[i].priority = Absent
                                THEN NumberToString(8)
                                ELSE NumberToString(smUrls[i].priority.n)

(***************************************************************************)
(* navigationReducer, called on its own with any state and any action.     *)
(***************************************************************************)
DropdownActionTypes == {"TOGGLE_DROPDOWN", "CLOSE_DROPDOWN", "CLOSE_ALL_DROPDOWNS"}
MobileMenuActionTypes == {"TOGGLE_MOBILE_MENU", "SET_MOBILE_MENU"}
ActionTypes ==
  DropdownActionTypes \cup MobileMenuActionTypes \cup {"SET_ACTIVE_ITEM", "UPDATE_INTERACTION"}

\* Types outside the NavigationAction union.
UnknownActionTypes == {"RESET", "toggle_dropdown"}

\* NavigationAction, by the type of the payload, and the actions outside it.
LabelActions == [type : {"TOGGLE_DROPDOWN", "CLOSE_DROPDOWN"}, payload : Labels]
ActiveItemActions == [type : {"SET_ACTIVE_ITEM"}, payload : Labels \cup {Null}]
BooleanActions == [type : {"SET_MOBILE_MENU"}, payload : BOOLEAN]
PlainActions ==
  [type : {"CLOSE_ALL_DROPDOWNS", "TOGGLE_MOBILE_MENU", "UPDATE_INTERACTION"}
            \cup UnknownActionTypes]

\* NavigationState, last touched no later than t.
NavigationStates(t) ==
  [openDropdowns : SUBSET Labels, activeItem : Labels \cup {Null}, mobileMenuOpen : BOOLEAN,
   lastInteraction : StartTime..t]

RdCall ==
  /\ rdResult = NoValue
  /\ rdResult' = navigationReducer(rdState, rdAction, now)
  /\ UNCHANGED <<rdState, rdAction, pcData, pcResult, smUrls, smXml, ttContent, ttResult,
                 now, notUt>>

RdInit ==
  /\ now \in StartTime..EndTime
  /\ ticks = 0
  /\ rdState \in NavigationStates(now)
  /\ \/ rdAction \in LabelActions
     \/ rdAction \in ActiveItemActions
     \/ rdAction \in BooleanActions
     \/ rdAction \in PlainActions
  /\ rdResult = NoValue
  /\ PcIdle /\ SmIdle /\ TtIdle
  /\ NavIdle /\ DbIdle /\ ThIdle /\ LzIdle /\ MdIdle /\ CkIdle /\ GsIdle

RdNext == RdCall

SpecReducer == RdInit /\ [][RdNext]_vars

\* C14: the dropdown actions leave mobileMenuOpen and activeItem as they were,
\* the mobile-menu actions leave openDropdowns and activeItem as they were, and
\* an action of no recognised type gives back the state unchanged.
C14_ReducerFrame ==
  rdResult # NoValue
  => /\ rdAction.type \in DropdownActionTypes
        => /\ rdResult.mobileMenuOpen = rdState.mobileMenuOpen
           /\ rdResult.activeItem = rdState.activeItem
     /\ rdAction.type \in MobileMenuActionTypes
        => /\ rdResult.openDropdowns = rdState.openDropdowns
           /\ rdResult.activeItem = rdState.activeItem
     /\ rdAction.type \notin ActionTypes => rdResult = rdState

\* C14 witness: the mobile menu was toggled at a later time in a state with
\* dropdowns open and an active item, and both are as they were.
C14_Witness ==
  /\ rdResult # NoValue
  /\ rdAction.type = "TOGGLE_MOBILE_MENU"
  /\ rdState.openDropdowns = Labels
  /\ rdState.activeItem # Null
  /\ rdResult.mobileMenuOpen # rdState.mobileMenuOpen
  /\ rdResult.lastInteraction > rdState.lastInteraction
  /\ rdResult.openDropdowns = Labels
  /\ rdResult.activeItem = rdState.activeItem

(***************************************************************************)
(* getSafeTitleContent and validateTitleContent, of the Entrance section   *)
(* and of the Tools section. The strings are tested for emptiness only.    *)
(***************************************************************************)
\* Reading a property of an object; undefined when it has none.
TitleProp(obj, key) == Get(Prop(obj, key))

\* Entrance validateTitleContent(title): TRUE when it returns, FALSE when it throws.
EntranceValidateTitleContent(title) ==
  /\ Truthy(title) /\ title.t = "object"
  /\ LET line1 == TitleProp(title, "line1")
         line2 == TitleProp(title, "line2")
         line3 == TitleProp(title, "line3")
     IN /\ Truthy(line1) /\ line1.t = "object"
        /\ Truthy(TitleProp(line1, "highlighted")) /\ TitleProp(line1, "highlighted").t = "string"
        /\ Truthy(TitleProp(line1, "regular")) /\ TitleProp(line1, "regular").t = "string"
        /\ Truthy(line2) /\ line2.t = "object"
        /\ Truthy(line3) /\ line3.t = "object"
        /\ Truthy(TitleProp(line3, "highlighted")) /\ TitleProp(line3, "highlighted").t = "string"
        /\ Truthy(TitleProp(line3, "regular")) /\ TitleProp(line3, "regular").t = "string"

\* The text of the Entrance fallback, in one piece.
EntranceFallbackText ==
  <<"Invest Founders Fund was established together with close friends to create a trusted space for shared growth and investment opportunities.">>

EntranceFallbackTitle ==
  Obj([line1 |-> Obj([highlighted |-> Str(EntranceFallbackText), regular |-> Str(<<>>)])])

\* Entrance getSafeTitleContent(title)
EntranceGetSafeTitleContent(title) ==
  IF EntranceValidateTitleContent(title) THEN title ELSE EntranceFallbackTitle

\* Tools validateTitleContent(title): TRUE when it returns, FALSE when it throws.
ToolsValidateTitleContent(title) ==
  /\ Truthy(title) /\ title.t = "object"
  /\ Truthy(TitleProp(title, "line1")) /\ TitleProp(title, "line1").t = "string"
  /\ TitleProp(title, "line2") = Undefined \/ TitleProp(title, "line2").t = "string"

ToolsFallbackTitle == Obj([line1 |-> Str(<<>>), line2 |-> Str(<<>>)])

\* Tools getSafeTitleContent(title)
ToolsGetSafeTitleContent(title) ==
  IF ToolsValidateTitleContent(title) THEN title ELSE ToolsFallbackTitle

\* ---- the values the functions are given
TextValues == {Absent, Str(<<>>), Str(<<"a">>), Num(1)}
NonObjects == {Absent, JsNull, Str(<<"a">>)}

TitleLines == NonObjects \cup {Obj([highlighted |-> h, regular |-> g]) : h, g \in TextValues}

EntranceTitles ==
  {JsNull, Undefined, Str(<<"a">>)}
  \cup {Obj([line1 |-> l1, line2 |-> l2, line3 |-> l3]) :
          l1 \in TitleLines, l2 \in NonObjects \cup {Obj(<<>>)}, l3 \in TitleLines}

ToolsTitles ==
  {JsNull, Undefined, Str(<<"a">>)}
  \cup {Obj([line1 |-> l1, line2 |-> l2]) :
          l1 \in TextValues \cup {JsNull}, l2 \in TextValues \cup {JsNull, Undefined}}

TtCallEntrance ==
  /\ ttResult = NoValue
  /\ ttContent.utils = "Entrance"
  /\ ttResult' = EntranceGetSafeTitleContent(ttContent.title)
  /\ UNCHANGED <<ttContent, pcData, pcResult, smUrls, smXml, rdState, rdAction, rdResult,
                 now, notUt>>

TtCallTools ==
  /\ ttResult = NoValue
  /\ ttContent.utils = "Tools"
  /\ ttResult' = ToolsGetSafeTitleContent(ttContent.title)
  /\ UNCHANGED <<ttContent, pcData, pcResult, smUrls, smXml, rdState, rdAction, rdResult,
                 now, notUt>>

TtInit ==
  /\ now = StartTime
  /\ ticks = 0
  /\ \/ ttContent \in [utils : {"Entrance"}, title : EntranceTitles]
     \/ ttContent \in [utils : {"Tools"}, title : ToolsTitles]
  /\ ttResult = NoValue
  /\ PcIdle /\ SmIdle /\ RdIdle
  /\ NavIdle /\ DbIdle /\ ThIdle /\ LzIdle /\ MdIdle /\ CkIdle /\ GsIdle

TtNext ==
  \/ TtCallEntrance
  \/ TtCallTools

SpecSafeTitle == TtInit /\ [][TtNext]_vars

\* C15, as documented: for every input, what getSafeTitleContent returns is
\* accepted by the validateTitleContent of the same section.
C15_SafeTitleIsValid ==
  ttResult # NoValue
  => IF ttContent.utils = "Entrance"
     THEN EntranceValidateTitleContent(ttResult)
     ELSE ToolsValidateTitleContent(ttResult)

====
